---- MODULE Spec2Model ----
(***************************************************************************)
(* Chapter generation orchestrator of ether_stories.                       *)
(*   app/agents/narrative_agent/orchestrator.py : main, generer_chapitre   *)
(*   agents/multi agents/moderateur.py          : verifier_coherence       *)
(*   agents/multi agents/ecrivain.py            : generer_chapitre (writer)*)
(*   agents/multi agents/dessinateur.py         : generer_image            *)
(* Texts are sequences of one-character strings, so that lower-casing,     *)
(* stripping and the substring test are computed as the code computes them.*)
(***************************************************************************)
EXTENDS Integers, Sequences, FiniteSets, TLC

VARIABLES
  plan_exists,       \* PLAN_FILE.exists()
  plan,              \* the "numero" of each entry of data["chapitres"], in order
  peurs,             \* elements_cles.peurs_evitees of plan.json
  client,            \* moderateur.client is not None
  file,              \* OUTPUT_FILE: [state, chapitres]
  pc,                \* position of the process in main / generer_chapitre
  output_data,       \* main: output_data["chapitres"]
  idx,               \* main: position of the for loop in chapters_raw
  max_retry,         \* generer_chapitre: max_retry
  tentative,         \* generer_chapitre: loop variable
  story_text,        \* generer_chapitre: story_text of the current attempt
  coherent,          \* generer_chapitre: coherent of the current attempt
  previous_chapters, \* generer_chapitre: previous_chapters argument
  result,            \* generer_chapitre: returned ChapterResult
  meta,              \* generer_chapitre: returned meta
  judged,            \* history: verifier_coherence calls made for the current draft
  gate_error,        \* history: the last verifier_coherence call ended on an error path
  attempts,          \* history: writer calls made by this invocation
  all_forbidden,     \* history: every draft the writer returned so far had a violation
  img_outcome,       \* history: what painter.generer_image did in this invocation
  start_output,      \* history: output_data as loaded when this run of main started
  committed,         \* history: chapitres of the last completed _save_output
  mod_calls,         \* history: verifier_coherence calls made by the invocation under way
  prior_forbidden,   \* history: every draft before the current one had a violation
  cancel,            \* a cancellation of the run has been requested
  user_input,        \* manager: the duree_minutes of the request, [present, value]
  nb_chapitres,      \* manager: the chapter count computed for the request
  model_calls,       \* history: [on, n], completions the writer asked for in this call
  paint_calls,       \* history: painter.generer_image calls made by this invocation
  directive,         \* history: the prompt of the latest attempt says "REJETE"
  retry,             \* history: why the latest retry happened and whether it slept
  wcall,             \* ecrivain.generer_chapitre alone: [calls, retries, out]
  state,             \* graph: the StoryState of story_graph
  job,               \* routes: story_jobs[job_id]
  db,                \* routes: the Story and Chapter rows committed
  ghist              \* history of the graph run under way

vars == << plan_exists, plan, peurs, client, file, pc, output_data, idx, max_retry,
           tentative, story_text, coherent, previous_chapters, result, meta,
           judged, gate_error, attempts, all_forbidden, img_outcome,
           start_output, committed, mod_calls, prior_forbidden, cancel,
           user_input, nb_chapitres, model_calls, paint_calls, directive, retry,
           wcall, state, job, db, ghist >>

---------------------------------------------------------------------------
\* Bounds of the model
MaxPlanLen == 2
MaxChapterNum == 2

\* Program constants
MainMaxRetry == 3
WriterRetries == 2
ModeratorRetries == 2

\* Python's None, where a path may stand
None == <<"None">>
\* Python's "" (the empty str)
EmptyStr == << >>

---------------------------------------------------------------------------
\* Texts

\* str.lower() on one character
LowerChar(c) ==
  CASE c = "A" -> "a"
    [] c = "K" -> "k"
    [] c = "N" -> "n"
    [] c = "O" -> "o"
    [] OTHER -> c

\* str.lower()
Lower(t) == [i \in 1..Len(t) |-> LowerChar(t[i])]

\* Python's  w in t  on str: w occurs in t as a contiguous substring
Contains(w, t) ==
  \E i \in 0..(Len(t) - Len(w)) : SubSeq(t, i + 1, i + Len(w)) = w

IsSpace(c) == c = " "

RECURSIVE LStrip(_)
LStrip(t) == IF t # << >> /\ IsSpace(Head(t)) THEN LStrip(Tail(t)) ELSE t

RECURSIVE RStrip(_)
RStrip(t) ==
  IF t # << >> /\ IsSpace(t[Len(t)]) THEN RStrip(SubSeq(t, 1, Len(t) - 1)) ELSE t

\* str.strip()
Strip(t) == RStrip(LStrip(t))

\* orchestrator.py 181-182: violations = [m for m in peurs if m.lower() in story_lower]
Violations(forbidden, text) ==
  SelectSeq(forbidden, LAMBDA m : Contains(Lower(m), Lower(text)))

\* What the model hands back on one streamed completion, before strip()
RawTexts ==
  { << >>, << " " >>, << "o", "k", " " >>, << "a", "N", "O" >> }

\* peurs_evitees lists of the plans considered
PeursChoices == { << >>, << << "N", "o" >> >> }

\* chapitres lists of the plans considered, by their numero
Plans == UNION { [1..n -> 1..MaxChapterNum] : n \in 0..MaxPlanLen }

---------------------------------------------------------------------------
\* Content Generator: ecrivain.generer_chapitre

\* One completion call of the writer: it raises, or streams a text
WriterOutcomes ==
  { [exc |-> TRUE, content |-> << >>] }
    \cup { [exc |-> FALSE, content |-> t] : t \in RawTexts }

\* ecrivain.py 18-61 from the call numbered attempt on: the first call that does
\* not raise returns its stripped text; a raise is retried while attempt <= retries
RECURSIVE EcrivainFrom(_, _, _)
EcrivainFrom(calls, retries, attempt) ==
  IF ~calls[attempt].exc
  THEN [raised |-> FALSE, text |-> Strip(calls[attempt].content), calls |-> attempt]
  ELSE IF attempt > retries
       THEN [raised |-> TRUE, text |-> << >>, calls |-> attempt]
       ELSE EcrivainFrom(calls, retries, attempt + 1)

\* A writer that gives up at the first completion that raises
Ecrivain_NoRetry(calls, retries) == EcrivainFrom(calls, 0, 1)

\* writer.generer_chapitre(prompt, max_tokens=1024, retries=retries)
Ecrivain(calls, retries) == EcrivainFrom(calls, retries, 1)

\* What writer.generer_chapitre(..., retries=2) can do, over every run of its calls:
\* raise, or return a text
WriterReturns ==
  { [raised |-> Ecrivain(calls, WriterRetries).raised,
     text |-> Ecrivain(calls, WriterRetries).text,
     calls |-> Ecrivain(calls, WriterRetries).calls] :
      calls \in [1..(WriterRetries + 1) -> WriterOutcomes] }

---------------------------------------------------------------------------
\* Safety judgment: moderateur.verifier_coherence

\* The value found under "coherent" in the parsed answer
CoherentValues == { "true", "false", "absent", "text" }

\* bool(parsed.get("coherent", False)): a missing key is False, a non-empty str is True
PyBool(v) == v \in { "true", "text" }

\* One chat completion of the moderator: the call raises, the answer holds no JSON
\* object (ValueError, or json.loads raising), or it parses to an object
ModResponses ==
  { [kind |-> "raise", coherent |-> "absent"], [kind |-> "nojson", coherent |-> "absent"] }
    \cup { [kind |-> "obj", coherent |-> c] : c \in CoherentValues }

\* moderateur.py 87-130 from the call numbered attempt on
RECURSIVE VerifierFrom(_, _, _)
VerifierFrom(responses, retries, attempt) ==
  IF responses[attempt].kind = "obj"
  THEN [coherent |-> PyBool(responses[attempt].coherent), calls |-> attempt, error |-> FALSE]
  ELSE IF attempt <= retries
       THEN VerifierFrom(responses, retries, attempt + 1)
       ELSE [coherent |-> TRUE, calls |-> attempt, error |-> TRUE]

\* moderateur.verifier_coherence: .coherent is the value returned, .calls the number
\* of completions requested, .error whether the value comes from an error path
\* (no client, lines 37-39; every call failed, lines 128-130)
VerifierCoherence(cl, responses, retries) ==
  IF ~cl
  THEN [coherent |-> TRUE, calls |-> 0, error |-> TRUE]
  ELSE VerifierFrom(responses, retries, 1)

\* What verifier_coherence(...) with its default retries can return, over every run
\* of its calls, with and without a client
VerifierReturns(cl) ==
  { [coherent |-> VerifierCoherence(cl, responses, ModeratorRetries).coherent,
     error |-> VerifierCoherence(cl, responses, ModeratorRetries).error] :
      responses \in [1..(ModeratorRetries + 1) -> ModResponses] }

VerifierReturnsOf == [cl \in BOOLEAN |-> VerifierReturns(cl)]

---------------------------------------------------------------------------
\* Illustration Generator: painter.generer_image, seen from generer_chapitre

\* "raise": generer_image raises; "nofile": it returns and img_file.exists() is
\* False; "file": it returns and img_file.exists() is True
PainterOutcomes == { "raise", "nofile", "file" }

\* OUTPUT_DIR / f"chapter_{chapter.chapter_number}.png"
ImgFile(n) == << "chapter_", ToString(n), ".png" >>

\* ImagePathAfter without the img_file.exists() test of line 216
ImagePathAfter_NoExistsTest(outcome, n) == IF outcome = "raise" THEN None ELSE ImgFile(n)

\* orchestrator.py 209-224: image_path after the painter call
ImagePathAfter(outcome, n) == IF outcome = "file" THEN ImgFile(n) ELSE None

---------------------------------------------------------------------------
\* Results of generer_chapitre

MsgRejected == << "Rejete par moderateur" >>
MsgEmpty == << "Texte vide" >>
MsgWriter == << "writer exception" >>
MsgFallback == << "Echec apres max_retry tentatives" >>

NoResult ==
  [chapter_number |-> 0, story_text |-> EmptyStr, illustration_path |-> EmptyStr,
   status |-> "none", error_message |-> None]

NoMeta == [coherent |-> FALSE, image |-> None, status |-> "none", tentatives |-> 0]

\* orchestrator.py 229-235
\* A result that carries the rejection message whatever the verdict
ResultOf_AlwaysMessage(n, text, image_path, coh) ==
  [chapter_number |-> n,
   story_text |-> text,
   illustration_path |-> IF image_path = None THEN EmptyStr ELSE image_path,
   status |-> IF coh THEN "ok" ELSE "failed",
   error_message |-> MsgRejected]

ResultOf(n, text, image_path, coh) ==
  [chapter_number |-> n,
   story_text |-> text,
   illustration_path |-> IF image_path = None THEN EmptyStr ELSE image_path,
   status |-> IF coh THEN "ok" ELSE "failed",
   error_message |-> IF coh THEN None ELSE MsgRejected]

\* orchestrator.py 236-241
\* meta recording the number of retries instead of the number of attempts
MetaOf_CountsRetries(image_path, coh, t) ==
  [coherent |-> coh, image |-> image_path,
   status |-> IF coh THEN "ok" ELSE "failed", tentatives |-> t - 1]

MetaOf(image_path, coh, t) ==
  [coherent |-> coh, image |-> image_path,
   status |-> IF coh THEN "ok" ELSE "failed", tentatives |-> t]

\* orchestrator.py 247-253
ExcResult(n, msg) ==
  [chapter_number |-> n, story_text |-> EmptyStr, illustration_path |-> EmptyStr,
   status |-> "failed", error_message |-> msg]

\* orchestrator.py 254
ExcMeta(t) == [coherent |-> FALSE, image |-> None, status |-> "failed", tentatives |-> t]

\* orchestrator.py 323-333 (title, summary and generated_at left out)
Entry(res, m) ==
  [chapter_number |-> res.chapter_number,
   story_text |-> res.story_text,
   image |-> m.image,
   status |-> m.status,
   coherent |-> m.coherent,
   tentatives |-> m.tentatives]

---------------------------------------------------------------------------
\* Persisted output

\* orchestrator.py 65-69: write_text opens OUTPUT_FILE, which creates it empty,
\* and then writes the text of an output without chapters
OpenedFile == [state |-> "partial", chapitres |-> << >>]
EmptyOutputFile == [state |-> "json", chapitres |-> << >>]

\* orchestrator.py 73-82: an empty or undecodable file loads as no chapters
\* A load that loses the last entry of the file
LoadOutput_DropLast(f) ==
  IF f.state = "json" /\ f.chapitres # << >>
  THEN SubSeq(f.chapitres, 1, Len(f.chapitres) - 1)
  ELSE << >>

LoadOutput(f) == IF f.state = "json" THEN f.chapitres ELSE << >>

\* AlreadyGenerated looking only at the chapters that were accepted
AlreadyGenerated_OnlyOk(chapitres, chap_num) ==
  \E i \in 1..Len(chapitres) :
    chapitres[i].chapter_number = chap_num /\ chapitres[i].status = "ok"

\* AlreadyGenerated missing the last entry of the list
AlreadyGenerated_SkipLast(chapitres, chap_num) ==
  \E i \in 1..(Len(chapitres) - 1) : chapitres[i].chapter_number = chap_num

\* orchestrator.py 302: any(c["chapter_number"] == chap_num for c in ...)
\* The skip test looking at the first entry only
AlreadyGenerated_FirstOnly(chapitres, chap_num) ==
  chapitres # << >> /\ chapitres[1].chapter_number = chap_num

AlreadyGenerated(chapitres, chap_num) ==
  \E i \in 1..Len(chapitres) : chapitres[i].chapter_number = chap_num

\* orchestrator.py 311: [c.get("story_text", "") for c in output_data["chapitres"]]
PreviousChapters(chapitres) ==
  [i \in 1..Len(chapitres) |-> chapitres[i].story_text]

\* NextIdx leaving the loop when the chapter failed
NextIdx_StopOnFailed(i, res) == IF res.status = "failed" THEN Len(plan) + 1 ELSE i + 1

\* orchestrator.py 298: the for loop moves to the next element of chapters_raw
NextIdx(i, res) == i + 1

\* NextTentative stepping over an attempt number
NextTentative_Skip(t) == t + 2

\* orchestrator.py 142: for tentative in range(1, max_retry + 1), the next value
NextTentative(t) == t + 1

\* orchestrator.py 186 and 203: tentative < max_retry
AttemptsRemain(t, m) == t < m

\* Exhausted giving up one attempt early
Exhausted_OneEarly(t, m) == t + 1 >= m

\* orchestrator.py 246: tentative >= max_retry
Exhausted_Never(t, m) == FALSE

\* generer_chapitre 246: if tentative >= max_retry, the failed result is returned
Exhausted(t, m) == t >= m

\* AppendEntry putting the new entry first
AppendEntry_First(chapitres, e) == << e >> \o chapitres

\* orchestrator.py 334: output_data["chapitres"].append(entry)
AppendEntry_ReplaceLast(chapitres, e) ==
  IF chapitres = << >> THEN << e >> ELSE [chapitres EXCEPT ![Len(chapitres)] = e]

\* main 334: output_data["chapitres"].append(entry)
AppendEntry(chapitres, e) == Append(chapitres, e)

---------------------------------------------------------------------------
\* generer_chapitre 155-157: the prompt of attempt t carries the directive
\* "Le texte precedent a ete REJETE" from the third attempt on only
HasRejectedDirective_FromThird(t) == t > 2

\* generer_chapitre 155-157: if tentative > 1, the directive is appended
HasRejectedDirective(t) == t > 1

\* The painter called whatever the verdict
PaintsWhen_Always(coh) == TRUE

\* generer_chapitre 213: if coherent, painter.generer_image is called
PaintsWhen(coh) == coh

\* No retry has happened in this invocation
NoRetry == [cause |-> "none", slept |-> FALSE]

\* generer_chapitre 186-187, 203-206 and 256-257: the `continue` after a local
\* violation is reached without time.sleep(1); the two others sleep first
RetryAfter(cause) == [cause |-> cause, slept |-> cause # "lexical"]

\* The writer's completions are counted for a direct call of generer_chapitre
\* and left uncounted under main
NotCounting == [on |-> FALSE, n |-> 0]
Counting == [on |-> TRUE, n |-> 0]

\* orchestrator.py 175: one writer call that asked for k completions
CountCalls(c, k) == IF c.on THEN [c EXCEPT !.n = @ + k] ELSE c

\* ecrivain.generer_chapitre is not being looked at on its own
NoWriterCall ==
  [calls |-> << >>, retries |-> 0, out |-> [raised |-> FALSE, text |-> << >>, calls |-> 0]]

\* Values of the graph's variables while no story job exists
NoState == << >>
NoJob == [status |-> "none"]
NoDb == [user |-> FALSE, story |-> FALSE, chapters |-> << >>]
NoHist == << >>

Running == { "ensuring", "loop", "drafting", "checking", "accepted", "returned", "writing" }

\* No request to the manager is under way
NoInput == [present |-> FALSE, value |-> 0]

Init ==
  /\ plan_exists \in BOOLEAN
  /\ plan \in (IF plan_exists THEN Plans ELSE { << >> })
  /\ peurs \in (IF plan_exists THEN PeursChoices ELSE { << >> })
  /\ client \in (IF plan_exists THEN BOOLEAN ELSE { FALSE })
  /\ file = [state |-> "absent", chapitres |-> << >>]
  /\ pc = "idle"
  /\ output_data = << >>
  /\ idx = 0
  /\ max_retry = 0
  /\ tentative = 0
  /\ story_text = EmptyStr
  /\ coherent = FALSE
  /\ previous_chapters = << >>
  /\ result = NoResult
  /\ meta = NoMeta
  /\ judged = 0
  /\ gate_error = FALSE
  /\ attempts = 0
  /\ all_forbidden = TRUE
  /\ img_outcome = "none"
  /\ start_output = << >>
  /\ committed = << >>
  /\ mod_calls = 0
  /\ prior_forbidden = TRUE
  /\ cancel = FALSE
  /\ user_input = NoInput
  /\ nb_chapitres = 0
  /\ model_calls = NotCounting
  /\ paint_calls = 0
  /\ directive = FALSE
  /\ retry = NoRetry
  /\ wcall = NoWriterCall
  /\ state = NoState
  /\ job = NoJob
  /\ db = NoDb
  /\ ghist = NoHist

\* The locals of generer_chapitre before a call
ResetChapter ==
  /\ max_retry' = 0
  /\ tentative' = 0
  /\ story_text' = EmptyStr
  /\ coherent' = FALSE
  /\ previous_chapters' = << >>
  /\ result' = NoResult
  /\ meta' = NoMeta
  /\ judged' = 0
  /\ gate_error' = FALSE
  /\ attempts' = 0
  /\ all_forbidden' = TRUE
  /\ img_outcome' = "none"
  /\ mod_calls' = 0
  /\ prior_forbidden' = TRUE
  /\ model_calls' = [model_calls EXCEPT !.n = 0]
  /\ paint_calls' = 0
  /\ directive' = FALSE
  /\ retry' = NoRetry

\* main 279-284: plan.json is missing, main prints and returns
MainNoPlan ==
  /\ pc = "idle"
  /\ ~plan_exists
  /\ pc' = "noplan"
  /\ UNCHANGED << wcall, state, job, db, ghist, user_input, nb_chapitres, plan_exists, plan, peurs, client, file, output_data, idx, max_retry,
                  tentative, story_text, coherent, previous_chapters, result, meta,
                  judged, gate_error, attempts, all_forbidden, img_outcome,
                  start_output, committed >>
  /\ UNCHANGED << cancel, mod_calls, prior_forbidden >>
  /\ UNCHANGED << model_calls, paint_calls, directive, retry >>

\* main 279-294, _ensure_output_file 63-65: the plan is loaded and OUTPUT_FILE does
\* not exist; write_text opens it, which leaves an empty file until the text is
\* written
EnsureBegin ==
  /\ pc = "idle"
  /\ plan_exists
  /\ file.state = "absent"
  /\ file' = OpenedFile
  /\ pc' = "ensuring"
  /\ UNCHANGED << wcall, state, job, db, ghist, user_input, nb_chapitres, plan_exists, plan, peurs, client, output_data, idx, max_retry,
                  tentative, story_text, coherent, previous_chapters, result, meta,
                  judged, gate_error, attempts, all_forbidden, img_outcome,
                  start_output, committed >>
  /\ UNCHANGED << cancel, mod_calls, prior_forbidden >>
  /\ UNCHANGED << model_calls, paint_calls, directive, retry >>

\* _ensure_output_file 65-69, _load_output 76-82, main 294-295: the text of the
\* new file is written, the file is read back and main enters its loop
EnsureEnd ==
  /\ pc = "ensuring"
  /\ file' = EmptyOutputFile
  /\ output_data' = LoadOutput(EmptyOutputFile)
  /\ start_output' = LoadOutput(EmptyOutputFile)
  /\ idx' = 1
  /\ pc' = "loop"
  /\ ResetChapter
  /\ UNCHANGED << wcall, state, job, db, ghist, user_input, nb_chapitres, plan_exists, plan, peurs, client, committed >>
  /\ UNCHANGED cancel

\* main 279-295: load the plan and load the output from an OUTPUT_FILE that exists
\* (_ensure_output_file 63-64 writes nothing)
MainStart ==
  /\ pc = "idle"
  /\ plan_exists
  /\ file.state # "absent"
  /\ output_data' = LoadOutput(file)
  /\ start_output' = LoadOutput(file)
  /\ idx' = 1
  /\ pc' = "loop"
  /\ ResetChapter
  /\ UNCHANGED << wcall, state, job, db, ghist, user_input, nb_chapitres, plan_exists, plan, peurs, client, file, committed >>
  /\ UNCHANGED cancel

\* main 298-304: the chapter is already in output_data, skip it
LoopSkip ==
  /\ pc = "loop"
  /\ idx <= Len(plan)
  /\ AlreadyGenerated(output_data, plan[idx])
  /\ idx' = idx + 1
  /\ UNCHANGED << wcall, state, job, db, ghist, user_input, nb_chapitres, plan_exists, plan, peurs, client, file, pc, output_data, max_retry,
                  tentative, story_text, coherent, previous_chapters, result, meta,
                  judged, gate_error, attempts, all_forbidden, img_outcome,
                  start_output, committed >>
  /\ UNCHANGED << cancel, mod_calls, prior_forbidden >>
  /\ UNCHANGED << model_calls, paint_calls, directive, retry >>

\* main 306-320 and generer_chapitre 139-142: the call, up to the first attempt
LoopBegin ==
  /\ pc = "loop"
  /\ idx <= Len(plan)
  /\ ~AlreadyGenerated(output_data, plan[idx])
  /\ previous_chapters' = PreviousChapters(output_data)
  /\ max_retry' = MainMaxRetry
  /\ story_text' = EmptyStr
  /\ coherent' = FALSE
  /\ judged' = 0
  /\ gate_error' = FALSE
  /\ attempts' = 0
  /\ all_forbidden' = TRUE
  /\ img_outcome' = "none"
  /\ IF MainMaxRetry >= 1
     THEN /\ tentative' = 1
          /\ pc' = "drafting"
          /\ result' = NoResult
          /\ meta' = NoMeta
     ELSE \* generer_chapitre 259-268: the loop body never runs
          /\ tentative' = 0
          /\ pc' = "returned"
          /\ result' = ExcResult(plan[idx], MsgFallback)
          /\ meta' = ExcMeta(MainMaxRetry)
  /\ UNCHANGED << wcall, state, job, db, ghist, user_input, nb_chapitres, plan_exists, plan, peurs, client, file, output_data, idx,
                  start_output, committed >>
  /\ mod_calls' = 0
  /\ prior_forbidden' = TRUE
  /\ UNCHANGED cancel
  /\ model_calls' = [model_calls EXCEPT !.n = 0]
  /\ paint_calls' = 0
  /\ directive' = FALSE
  /\ retry' = NoRetry

\* main 339-342: the loop is over
LoopEnd ==
  /\ pc = "loop"
  /\ idx > Len(plan)
  /\ pc' = "done"
  /\ UNCHANGED << wcall, state, job, db, ghist, user_input, nb_chapitres, plan_exists, plan, peurs, client, file, output_data, idx, max_retry,
                  tentative, story_text, coherent, previous_chapters, result, meta,
                  judged, gate_error, attempts, all_forbidden, img_outcome,
                  start_output, committed >>
  /\ UNCHANGED << cancel, mod_calls, prior_forbidden >>
  /\ UNCHANGED << model_calls, paint_calls, directive, retry >>

\* generer_chapitre 145-187 and 244-257: one writer call, the empty-text test, the
\* local forbidden-word test, and the except branch
Drafting ==
  /\ pc = "drafting"
  /\ \E w \in WriterReturns :
       LET failed == w.raised \/ w.text = EmptyStr
           violations == Violations(peurs, w.text)
       IN /\ attempts' = attempts + 1
          /\ model_calls' = CountCalls(model_calls, w.calls)
          /\ directive' = HasRejectedDirective(tentative)
          /\ retry' = IF failed
                       THEN IF Exhausted(tentative, max_retry)
                            THEN retry ELSE RetryAfter("error")
                       ELSE IF violations # << >> /\ AttemptsRemain(tentative, max_retry)
                            THEN RetryAfter("lexical") ELSE retry
          /\ judged' = 0
          /\ story_text' = w.text
          /\ all_forbidden' = (all_forbidden /\ ~failed /\ violations # << >>)
          /\ IF failed
             THEN IF Exhausted(tentative, max_retry)
                  THEN /\ result' = ExcResult(plan[idx], IF w.raised THEN MsgWriter ELSE MsgEmpty)
                       /\ meta' = ExcMeta(tentative)
                       /\ pc' = "returned"
                       /\ tentative' = tentative
                  ELSE /\ tentative' = NextTentative(tentative)
                       /\ pc' = "drafting"
                       /\ UNCHANGED << result, meta >>
             ELSE IF violations # << >> /\ AttemptsRemain(tentative, max_retry)
                  THEN /\ tentative' = NextTentative(tentative)
                       /\ pc' = "drafting"
                       /\ UNCHANGED << result, meta >>
                  ELSE /\ pc' = "checking"
                       /\ UNCHANGED << tentative, result, meta >>
  /\ UNCHANGED << wcall, state, job, db, ghist, user_input, nb_chapitres, plan_exists, plan, peurs, client, file, output_data, idx, max_retry,
                  coherent, previous_chapters, gate_error, img_outcome,
                  start_output, committed >>
  /\ prior_forbidden' = all_forbidden
  /\ UNCHANGED << cancel, mod_calls >>
  /\ UNCHANGED paint_calls

\* generer_chapitre 189-206 and, for a rejected last attempt, 208-242
Checking ==
  /\ pc = "checking"
  /\ \E v \in VerifierReturnsOf[client] :
          /\ coherent' = v.coherent
          /\ gate_error' = v.error
          /\ judged' = judged + 1
          /\ retry' = IF ~v.coherent /\ AttemptsRemain(tentative, max_retry)
                       THEN RetryAfter("semantic") ELSE retry
          /\ IF ~v.coherent /\ AttemptsRemain(tentative, max_retry)
             THEN /\ tentative' = NextTentative(tentative)
                  /\ pc' = "drafting"
                  /\ UNCHANGED << result, meta >>
             ELSE IF PaintsWhen(v.coherent)
                  THEN /\ pc' = "accepted"
                       /\ UNCHANGED << tentative, result, meta >>
                  ELSE /\ result' = ResultOf(plan[idx], story_text, None, FALSE)
                       /\ meta' = MetaOf(None, FALSE, tentative)
                       /\ pc' = "returned"
                       /\ tentative' = tentative
  /\ UNCHANGED << wcall, state, job, db, ghist, user_input, nb_chapitres, plan_exists, plan, peurs, client, file, output_data, idx, max_retry,
                  story_text, previous_chapters, attempts, all_forbidden, img_outcome,
                  start_output, committed >>
  /\ mod_calls' = mod_calls + 1
  /\ UNCHANGED << cancel, prior_forbidden >>
  /\ UNCHANGED << model_calls, paint_calls, directive >>

\* generer_chapitre 208-242 for a coherent draft: the painter call and the result
Accepted ==
  /\ pc = "accepted"
  /\ \E o \in PainterOutcomes :
       LET image_path == ImagePathAfter(o, plan[idx])
       IN /\ img_outcome' = o
          /\ result' = ResultOf(plan[idx], story_text, image_path, coherent)
          /\ meta' = MetaOf(image_path, coherent, tentative)
  /\ pc' = "returned"
  /\ UNCHANGED << wcall, state, job, db, ghist, user_input, nb_chapitres, plan_exists, plan, peurs, client, file, output_data, idx, max_retry,
                  tentative, story_text, coherent, previous_chapters, judged,
                  gate_error, attempts, all_forbidden, start_output, committed >>
  /\ UNCHANGED << cancel, mod_calls, prior_forbidden >>
  /\ paint_calls' = paint_calls + 1
  /\ UNCHANGED << model_calls, directive, retry >>

\* main 323-335, first half: the entry is appended and write_text opens
\* OUTPUT_FILE for writing, which truncates it
SaveBegin ==
  /\ pc = "returned"
  /\ output_data' = AppendEntry(output_data, Entry(result, meta))
  /\ file' = [state |-> "partial", chapitres |-> << >>]
  /\ pc' = "writing"
  /\ UNCHANGED << wcall, state, job, db, ghist, user_input, nb_chapitres, plan_exists, plan, peurs, client, idx, max_retry, tentative,
                  story_text, coherent, previous_chapters, result, meta, judged,
                  gate_error, attempts, all_forbidden, img_outcome, start_output,
                  committed >>
  /\ mod_calls' = 0
  /\ prior_forbidden' = TRUE
  /\ UNCHANGED cancel
  /\ model_calls' = [model_calls EXCEPT !.n = 0]
  /\ paint_calls' = 0
  /\ directive' = FALSE
  /\ retry' = NoRetry

\* main 335-337, second half: the JSON text is written and the file closed
SaveEnd ==
  /\ pc = "writing"
  /\ file' = [state |-> "json", chapitres |-> output_data]
  /\ committed' = output_data
  /\ idx' = NextIdx(idx, result)
  /\ pc' = "loop"
  /\ UNCHANGED << wcall, state, job, db, ghist, user_input, nb_chapitres, plan_exists, plan, peurs, client, output_data, max_retry, tentative,
                  story_text, coherent, previous_chapters, result, meta, judged,
                  gate_error, attempts, all_forbidden, img_outcome, start_output >>
  /\ UNCHANGED << cancel, mod_calls, prior_forbidden >>
  /\ UNCHANGED << model_calls, paint_calls, directive, retry >>

\* The process is killed while main runs; the next start finds OUTPUT_FILE as it is
Crash ==
  /\ pc \in Running
  /\ pc' = "idle"
  /\ output_data' = << >>
  /\ idx' = 0
  /\ start_output' = << >>
  /\ ResetChapter
  /\ UNCHANGED << wcall, state, job, db, ghist, user_input, nb_chapitres, plan_exists, plan, peurs, client, file, committed >>
  /\ cancel' = FALSE

\* main has returned, after its loop (340-342) or for want of plan.json (284);
\* the program is started again on the same plan and output
Restart ==
  /\ pc \in { "done", "noplan" }
  /\ pc' = "idle"
  /\ output_data' = << >>
  /\ idx' = 0
  /\ start_output' = << >>
  /\ ResetChapter
  /\ UNCHANGED << wcall, state, job, db, ghist, user_input, nb_chapitres, plan_exists, plan, peurs, client, file, committed >>
  /\ cancel' = FALSE

\* One run of main
NextRun ==
  \/ MainNoPlan
  \/ EnsureBegin
  \/ EnsureEnd
  \/ MainStart
  \/ LoopSkip
  \/ LoopBegin
  \/ LoopEnd
  \/ Drafting
  \/ Checking
  \/ Accepted
  \/ SaveBegin
  \/ SaveEnd

Next ==
  \/ MainNoPlan
  \/ EnsureBegin
  \/ EnsureEnd
  \/ MainStart
  \/ LoopSkip
  \/ LoopBegin
  \/ LoopEnd
  \/ Drafting
  \/ Checking
  \/ Accepted
  \/ SaveBegin
  \/ SaveEnd
  \/ Crash
  \/ Restart

Spec == Init /\ [][Next]_vars

\* Runs of main that are not interrupted, each on the output the one before
\* left
FairNext ==
  \/ MainNoPlan
  \/ EnsureBegin
  \/ EnsureEnd
  \/ MainStart
  \/ LoopSkip
  \/ LoopBegin
  \/ LoopEnd
  \/ Drafting
  \/ Checking
  \/ Accepted
  \/ SaveBegin
  \/ SaveEnd
  \/ Restart

\* Every step of a run is taken; whether main is started again is left open
FairSpec == Init /\ [][FairNext]_vars /\ WF_vars(NextRun)

---------------------------------------------------------------------------
\* A request to cancel the run arrives while main runs. main holds no cancellation
\* signal and reads none: no action of the program looks at cancel.
RequestCancel ==
  /\ pc \in Running
  /\ ~cancel
  /\ cancel' = TRUE
  /\ UNCHANGED << wcall, state, job, db, ghist, user_input, nb_chapitres, plan_exists, plan, peurs, client, file, pc,
                  output_data, idx, max_retry, tentative, story_text, coherent,
                  previous_chapters, result, meta, judged, gate_error, attempts,
                  all_forbidden, img_outcome, start_output, committed, mod_calls,
                  prior_forbidden >>
  /\ UNCHANGED << model_calls, paint_calls, directive, retry >>

CancelNext ==
  \/ MainNoPlan
  \/ EnsureBegin
  \/ EnsureEnd
  \/ MainStart
  \/ LoopSkip
  \/ LoopBegin
  \/ LoopEnd
  \/ Drafting
  \/ Checking
  \/ Accepted
  \/ SaveBegin
  \/ SaveEnd
  \/ Crash
  \/ Restart
  \/ RequestCancel

\* The program with an environment that may ask for cancellation
CancelSpec == Init /\ [][CancelNext]_vars

---------------------------------------------------------------------------
\* generer_chapitre called directly, with any max_retry

\* Largest max_retry a caller passes
MaxRetryArg == 4

CallInit ==
  /\ plan_exists = TRUE
  /\ plan \in { << n >> : n \in 1..MaxChapterNum }
  /\ peurs \in PeursChoices
  /\ client \in BOOLEAN
  /\ file = [state |-> "absent", chapitres |-> << >>]
  /\ pc = "call"
  /\ output_data = << >>
  /\ idx = 1
  /\ max_retry = 0
  /\ tentative = 0
  /\ story_text = EmptyStr
  /\ coherent = FALSE
  /\ previous_chapters = << >>
  /\ result = NoResult
  /\ meta = NoMeta
  /\ judged = 0
  /\ gate_error = FALSE
  /\ attempts = 0
  /\ all_forbidden = TRUE
  /\ img_outcome = "none"
  /\ start_output = << >>
  /\ committed = << >>
  /\ mod_calls = 0
  /\ prior_forbidden = TRUE
  /\ cancel = FALSE
  /\ user_input = NoInput
  /\ nb_chapitres = 0
  /\ model_calls = Counting
  /\ paint_calls = 0
  /\ directive = FALSE
  /\ retry = NoRetry
  /\ wcall = NoWriterCall
  /\ state = NoState
  /\ job = NoJob
  /\ db = NoDb
  /\ ghist = NoHist

\* generer_chapitre 130-142 and 259-268: entry into the call with max_retry = m;
\* when range(1, m + 1) is empty, which it is for every m below 1, the fallback
\* result is returned at once and records m
EnterCall(m) ==
  /\ max_retry' = m
  /\ IF m >= 1
     THEN /\ tentative' = 1
          /\ pc' = "drafting"
          /\ result' = NoResult
          /\ meta' = NoMeta
     ELSE /\ tentative' = 0
          /\ pc' = "returned"
          /\ result' = ExcResult(plan[idx], MsgFallback)
          /\ meta' = ExcMeta(m)
  /\ UNCHANGED << wcall, state, job, db, ghist, user_input, nb_chapitres, plan_exists, plan, peurs, client, file,
                  output_data, idx, story_text, coherent, previous_chapters, judged,
                  gate_error, attempts, all_forbidden, img_outcome, start_output,
                  committed, mod_calls, prior_forbidden, cancel >>
  /\ UNCHANGED << model_calls, paint_calls, directive, retry >>

\* A caller that passes a budget: max_retry is a count
CallBegin ==
  /\ pc = "call"
  /\ \E m \in 0..MaxRetryArg : EnterCall(m)

CallNext ==
  \/ CallBegin
  \/ Drafting
  \/ Checking
  \/ Accepted

\* One call of generer_chapitre
CallSpec == CallInit /\ [][CallNext]_vars

\* Depth below zero of the max_retry values a caller passes
MaxNegativeRetryArg == 1

\* A caller that passes any integer: max_retry is an int parameter that the code
\* does not check (130-136)
CallBeginAnyInt ==
  /\ pc = "call"
  /\ \E m \in (0 - MaxNegativeRetryArg)..MaxRetryArg : EnterCall(m)

AnyIntNext ==
  \/ CallBeginAnyInt
  \/ Drafting
  \/ Checking
  \/ Accepted

\* One call of generer_chapitre with any integer as max_retry
AnyIntSpec == CallInit /\ [][AnyIntNext]_vars

---------------------------------------------------------------------------
\* Chapter count of a story plan (manager)

\* Longest story asked for, in minutes
MaxDuration == 60

\* The duree_minutes of a request: missing, or a number of minutes
UserInputs ==
  { NoInput } \cup { [present |-> TRUE, value |-> d] : d \in 0..MaxDuration }

Max(a, b) == IF a >= b THEN a ELSE b
Min(a, b) == IF a <= b THEN a ELSE b

\* math.ceil(a / b) on integers, b > 0
CeilDiv(a, b) == (a + b - 1) \div b

\* nodes.py 26: int(raw_input.get("duree_minutes", 2))
DurationOf(inp) == IF inp.present THEN inp.value ELSE 2

\* nodes.py 27: max(2, min(5, math.ceil(duration / 3)))
NodesChapterCount(duration) == Max(2, Min(5, CeilDiv(duration, 3)))

\* manager_prompt.py 155: max(2, min(5, duree_minutes // 3))
PromptChapterCount(duree_minutes) == Max(2, Min(5, duree_minutes \div 3))

PlanInit ==
  /\ user_input \in UserInputs
  /\ nb_chapitres = 0
  /\ pc = "request"
  /\ plan_exists = FALSE
  /\ plan = << >>
  /\ peurs = << >>
  /\ client = FALSE
  /\ file = [state |-> "absent", chapitres |-> << >>]
  /\ output_data = << >>
  /\ idx = 0
  /\ max_retry = 0
  /\ tentative = 0
  /\ story_text = EmptyStr
  /\ coherent = FALSE
  /\ previous_chapters = << >>
  /\ result = NoResult
  /\ meta = NoMeta
  /\ judged = 0
  /\ gate_error = FALSE
  /\ attempts = 0
  /\ all_forbidden = TRUE
  /\ img_outcome = "none"
  /\ start_output = << >>
  /\ committed = << >>
  /\ mod_calls = 0
  /\ prior_forbidden = TRUE
  /\ cancel = FALSE
  /\ model_calls = NotCounting
  /\ paint_calls = 0
  /\ directive = FALSE
  /\ retry = NoRetry
  /\ wcall = NoWriterCall
  /\ state = NoState
  /\ job = NoJob
  /\ db = NoDb
  /\ ghist = NoHist

\* nodes.py 22-48: input_guard_node
InputGuardNode ==
  /\ pc = "request"
  /\ nb_chapitres' = NodesChapterCount(DurationOf(user_input))
  /\ pc' = "guarded"
  /\ UNCHANGED << wcall, state, job, db, ghist, user_input, plan_exists, plan, peurs, client, file, output_data, idx,
                  max_retry, tentative, story_text, coherent, previous_chapters, result,
                  meta, judged, gate_error, attempts, all_forbidden, img_outcome,
                  start_output, committed, mod_calls, prior_forbidden, cancel >>
  /\ UNCHANGED << model_calls, paint_calls, directive, retry >>

\* manager_prompt.py 90-155: get_user_prompt, which takes duree_minutes as given
GetUserPrompt ==
  /\ pc = "request"
  /\ user_input.present
  /\ nb_chapitres' = PromptChapterCount(user_input.value)
  /\ pc' = "prompted"
  /\ UNCHANGED << wcall, state, job, db, ghist, user_input, plan_exists, plan, peurs, client, file, output_data, idx,
                  max_retry, tentative, story_text, coherent, previous_chapters, result,
                  meta, judged, gate_error, attempts, all_forbidden, img_outcome,
                  start_output, committed, mod_calls, prior_forbidden, cancel >>
  /\ UNCHANGED << model_calls, paint_calls, directive, retry >>

PlanNext ==
  \/ InputGuardNode
  \/ GetUserPrompt

\* The manager computing the chapter count of a request
PlanSpec == PlanInit /\ [][PlanNext]_vars

---------------------------------------------------------------------------
\* ecrivain.generer_chapitre called directly, with any retries

\* Largest retries a caller of the writer passes
MaxWriterRetries == 2

WriterInit ==
  /\ user_input = NoInput
  /\ nb_chapitres = 0
  /\ pc = "writer_call"
  /\ plan_exists = FALSE
  /\ plan = << >>
  /\ peurs = << >>
  /\ client = FALSE
  /\ file = [state |-> "absent", chapitres |-> << >>]
  /\ output_data = << >>
  /\ idx = 0
  /\ max_retry = 0
  /\ tentative = 0
  /\ story_text = EmptyStr
  /\ coherent = FALSE
  /\ previous_chapters = << >>
  /\ result = NoResult
  /\ meta = NoMeta
  /\ judged = 0
  /\ gate_error = FALSE
  /\ attempts = 0
  /\ all_forbidden = TRUE
  /\ img_outcome = "none"
  /\ start_output = << >>
  /\ committed = << >>
  /\ mod_calls = 0
  /\ prior_forbidden = TRUE
  /\ cancel = FALSE
  /\ model_calls = NotCounting
  /\ paint_calls = 0
  /\ directive = FALSE
  /\ retry = NoRetry
  /\ wcall \in { [calls |-> c, retries |-> r, out |-> NoWriterCall.out] :
                   c \in [1..(MaxWriterRetries + 1) -> WriterOutcomes],
                   r \in 0..MaxWriterRetries }
  /\ state = NoState
  /\ job = NoJob
  /\ db = NoDb
  /\ ghist = NoHist

\* ecrivain.py 16-61: one call of generer_chapitre(prompt, retries=r), over the
\* completions it asks for
EcrivainCall ==
  /\ pc = "writer_call"
  /\ wcall' = [wcall EXCEPT !.out = Ecrivain(wcall.calls, wcall.retries)]
  /\ pc' = IF Ecrivain(wcall.calls, wcall.retries).raised
           THEN "writer_raised" ELSE "writer_returned"
  /\ UNCHANGED << state, job, db, ghist, user_input, nb_chapitres, plan_exists, plan,
                  peurs, client, file, output_data, idx, max_retry, tentative,
                  story_text, coherent, previous_chapters, result, meta, judged,
                  gate_error, attempts, all_forbidden, img_outcome, start_output,
                  committed, mod_calls, prior_forbidden, cancel, model_calls,
                  paint_calls, directive, retry >>

WriterNext ==
  \/ EcrivainCall
  \/ CallBegin
  \/ Drafting
  \/ Checking
  \/ Accepted

\* The writer called on its own, or from one call of generer_chapitre
WriterSpec == (WriterInit \/ CallInit) /\ [][WriterNext]_vars

---------------------------------------------------------------------------
\* The story graph (core/graph/workflow.py) and the job that runs it
\* (web/routes.py run_story_generation)

\* A key the state dict does not hold
Absent == << "absent" >>

\* Chapter contents the graph writer returns: "" and a text
GraphTexts == { EmptyStr, << "o", "k" >> }

MsgTranscription == << "Transcription failed" >>
MsgManager == << "manager error" >>
MsgWriterError == << "Writer Error" >>
MsgModeration == << "Moderation rejected" >>

\* routes.py 174-184: initial_state; the keys it does not set are absent
\* (has_plan tells whether "plan" is set, plan being the numero of each planned
\* chapter; current_chapter_index is read only after manager_node has set it)
InitialState(audio) ==
  [audio_file |-> audio,
   transcription |-> Absent,
   has_plan |-> FALSE,
   plan |-> << >>,
   current_chapter_index |-> 0,
   generated_chapters |-> << >>,
   current_chapter_content |-> Absent,
   current_chapter_image |-> Absent,
   current_chapter_audio |-> Absent,
   error |-> Absent,
   is_complete |-> FALSE]

\* No answer of the judgment model in the iteration under way
NoResp == [kind |-> "none", approved |-> "absent", severity |-> "absent"]

\* Nothing has run yet in the graph
StartHist ==
  [writer_ok |-> FALSE, approved |-> FALSE, resp |-> NoResp, writer_runs |-> 0,
   moderator_runs |-> 0, painter_runs |-> 0, narrator_runs |-> 0,
   finalize_runs |-> 0, saved |-> "none", deleted |-> FALSE]

\* routes.py 160-189: the job was created for a logged-in user, whose User row
\* exists; no Story or Chapter row of the job exists yet
StartDb == [user |-> TRUE, story |-> FALSE, chapters |-> << >>]

\* state.get("error") as a condition: a missing key, None and "" are false
HasError(st) == st.error \notin { Absent, None, EmptyStr }

\* One answer of the judgment model to verify_coherence: the call raises, the
\* content is not JSON, or it parses to an object whose "approved" is true,
\* false, missing, or a non-empty string
GraphModResponses ==
  { [kind |-> "raise", approved |-> "absent", severity |-> "absent"],
    [kind |-> "nojson", approved |-> "absent", severity |-> "absent"] }
    \cup { [kind |-> "obj", approved |-> a, severity |-> v] :
             a \in { "true", "false", "absent", "text" },
             v \in { "safe", "rejected" } }

\* moderator.py 38-71: result["coherent"] = result.get("approved", True) for a
\* parsed answer, False on any exception
VerifyCoherence(resp) ==
  IF resp.kind = "obj"
  THEN [coherent |-> IF resp.approved = "absent" THEN "true" ELSE resp.approved,
        rejected_message |-> resp.approved = "false" \/ resp.severity = "rejected"]
  ELSE [coherent |-> "false", rejected_message |-> TRUE]

\* workflow.py 83: if result["coherent"]
Truthy(v) == v \in { "true", "text" }

\* An edge after the moderator that never stops
CheckModeration_NeverStops(st) == "painter"

\* workflow.py 167-172: check_moderation
CheckModeration(st) == IF HasError(st) THEN "END" ELSE "painter"

\* workflow.py 155-158: check_input_output
CheckInputOutput(st) == IF HasError(st) THEN "END" ELSE "manager"

\* workflow.py 150-153: check_error
CheckError(st) == IF HasError(st) THEN "END" ELSE "writer"

\* Completion declared one chapter late
IsComplete_OneLate(next_index, n) == next_index > n

\* workflow.py 137: is_complete = next_index >= len(plan["chapitres"])
IsComplete(next_index, n) == next_index >= n

\* workflow.py 160-165: check_completion
CheckCompletion(st) ==
  IF HasError(st) THEN "END" ELSE IF st.is_complete THEN "END" ELSE "writer"

\* A job that ignores the error of the final state
JobFailed_IgnoresError(raised, st) == raised

\* routes.py 196-204 and 242-244: the job fails when the graph raised or the
\* final state holds an error
JobFailed(raised, st) == raised \/ HasError(st)

\* workflow.py 124-133: new_chapter
NewChapter(st) ==
  [numero |-> st.plan[st.current_chapter_index + 1],
   contenu |-> st.current_chapter_content,
   image_path |-> st.current_chapter_image,
   audio_path |-> st.current_chapter_audio]

GraphInit ==
  /\ user_input = NoInput
  /\ nb_chapitres = 0
  /\ pc = "input_processing"
  /\ plan_exists = FALSE
  /\ plan = << >>
  /\ peurs = << >>
  /\ client = FALSE
  /\ file = [state |-> "absent", chapitres |-> << >>]
  /\ output_data = << >>
  /\ idx = 0
  /\ max_retry = 0
  /\ tentative = 0
  /\ story_text = EmptyStr
  /\ coherent = FALSE
  /\ previous_chapters = << >>
  /\ result = NoResult
  /\ meta = NoMeta
  /\ judged = 0
  /\ gate_error = FALSE
  /\ attempts = 0
  /\ all_forbidden = TRUE
  /\ img_outcome = "none"
  /\ start_output = << >>
  /\ committed = << >>
  /\ mod_calls = 0
  /\ prior_forbidden = TRUE
  /\ cancel = FALSE
  /\ model_calls = NotCounting
  /\ paint_calls = 0
  /\ directive = FALSE
  /\ retry = NoRetry
  /\ wcall = NoWriterCall
  /\ state \in { InitialState(a) : a \in BOOLEAN }
  /\ job = [status |-> "processing"]
  /\ db = StartDb
  /\ ghist = StartHist

\* workflow.py 12-26 and 188-195: input_processing_node, then check_input_output
InputProcessingNode ==
  /\ pc = "input_processing"
  /\ \E ok \in BOOLEAN :
       LET st == IF ~state.audio_file
                 THEN state
                 ELSE IF ok
                      THEN [state EXCEPT !.transcription = << "o", "k" >>]
                      ELSE [state EXCEPT !.error = MsgTranscription]
       IN /\ state' = st
          /\ pc' = CheckInputOutput(st)
  /\ UNCHANGED << job, db, ghist >>
  /\ UNCHANGED << wcall, user_input, nb_chapitres, plan_exists, plan, peurs, client, file,
                  output_data, idx, max_retry, tentative, story_text, coherent,
                  previous_chapters, result, meta, judged, gate_error, attempts,
                  all_forbidden, img_outcome, start_output, committed, mod_calls,
                  prior_forbidden, cancel, model_calls, paint_calls, directive, retry >>

\* workflow.py 28-41 and 197-204: manager_node, then check_error
ManagerNode ==
  /\ pc = "manager"
  /\ \E failed \in BOOLEAN, chapitres \in Plans :
       LET st == IF failed
                 THEN [state EXCEPT !.error = MsgManager]
                 ELSE [state EXCEPT !.has_plan = TRUE,
                                    !.plan = chapitres,
                                    !.current_chapter_index = 0,
                                    !.generated_chapters = << >>,
                                    !.is_complete = FALSE]
       IN /\ state' = st
          /\ pc' = CheckError(st)
  /\ UNCHANGED << job, db, ghist >>
  /\ UNCHANGED << wcall, user_input, nb_chapitres, plan_exists, plan, peurs, client, file,
                  output_data, idx, max_retry, tentative, story_text, coherent,
                  previous_chapters, result, meta, judged, gate_error, attempts,
                  all_forbidden, img_outcome, start_output, committed, mod_calls,
                  prior_forbidden, cancel, model_calls, paint_calls, directive, retry >>

\* workflow.py 43-67 and 206: writer_node, then the edge to the moderator;
\* plan["chapitres"][index] raises IndexError when the plan has no such chapter
WriterNode ==
  /\ pc = "writer"
  /\ IF state.current_chapter_index + 1 > Len(state.plan)
     THEN /\ pc' = "raised"
          /\ UNCHANGED << state, ghist >>
     ELSE /\ \E raises \in BOOLEAN, content \in GraphTexts :
               /\ state' = IF raises
                           THEN [state EXCEPT !.error = MsgWriterError]
                           ELSE [state EXCEPT !.current_chapter_content = content,
                                              !.error = None]
               /\ ghist' = [ghist EXCEPT !.writer_ok = ~raises,
                                         !.approved = FALSE,
                                         !.resp = NoResp,
                                         !.writer_runs = @ + 1]
          /\ pc' = "moderator"
  /\ UNCHANGED << job, db >>
  /\ UNCHANGED << wcall, user_input, nb_chapitres, plan_exists, plan, peurs, client, file,
                  output_data, idx, max_retry, tentative, story_text, coherent,
                  previous_chapters, result, meta, judged, gate_error, attempts,
                  all_forbidden, img_outcome, start_output, committed, mod_calls,
                  prior_forbidden, cancel, model_calls, paint_calls, directive, retry >>

\* workflow.py 69-89 and 208-215: moderator_node, then check_moderation;
\* state["current_chapter_content"] raises KeyError when the key is absent, and
\* verify_coherence raises on None before its try block (context_loader.py 76)
ModeratorNode ==
  /\ pc = "moderator"
  /\ IF state.current_chapter_content \in { Absent, None }
     THEN /\ pc' = "raised"
          /\ UNCHANGED state
          /\ ghist' = [ghist EXCEPT !.moderator_runs = @ + 1]
     ELSE \E resp \in GraphModResponses :
            LET st == IF Truthy(VerifyCoherence(resp).coherent)
                      THEN [state EXCEPT !.error = None]
                      ELSE [state EXCEPT !.error = MsgModeration]
            IN /\ state' = st
               /\ pc' = CheckModeration(st)
               /\ ghist' = [ghist EXCEPT !.approved = ~HasError(st),
                                         !.resp = resp,
                                         !.moderator_runs = @ + 1]
  /\ UNCHANGED << job, db >>
  /\ UNCHANGED << wcall, user_input, nb_chapitres, plan_exists, plan, peurs, client, file,
                  output_data, idx, max_retry, tentative, story_text, coherent,
                  previous_chapters, result, meta, judged, gate_error, attempts,
                  all_forbidden, img_outcome, start_output, committed, mod_calls,
                  prior_forbidden, cancel, model_calls, paint_calls, directive, retry >>

\* workflow.py 91-103 and 217: painter_node; generate_image returns a path or ""
PainterNode ==
  /\ pc = "painter"
  /\ \E image_path \in { EmptyStr, << "/static/images/chapter.png" >> } :
       state' = [state EXCEPT !.current_chapter_image = image_path]
  /\ ghist' = [ghist EXCEPT !.painter_runs = @ + 1]
  /\ pc' = "narrator"
  /\ UNCHANGED << job, db >>
  /\ UNCHANGED << wcall, user_input, nb_chapitres, plan_exists, plan, peurs, client, file,
                  output_data, idx, max_retry, tentative, story_text, coherent,
                  previous_chapters, result, meta, judged, gate_error, attempts,
                  all_forbidden, img_outcome, start_output, committed, mod_calls,
                  prior_forbidden, cancel, model_calls, paint_calls, directive, retry >>

\* workflow.py 105-114 and 218: narrator_node; generate_audio returns a path or ""
NarratorNode ==
  /\ pc = "narrator"
  /\ \E audio_path \in { EmptyStr, << "/static/audio/chapter.mp3" >> } :
       state' = [state EXCEPT !.current_chapter_audio = audio_path]
  /\ ghist' = [ghist EXCEPT !.narrator_runs = @ + 1]
  /\ pc' = "finalize"
  /\ UNCHANGED << job, db >>
  /\ UNCHANGED << wcall, user_input, nb_chapitres, plan_exists, plan, peurs, client, file,
                  output_data, idx, max_retry, tentative, story_text, coherent,
                  previous_chapters, result, meta, judged, gate_error, attempts,
                  all_forbidden, img_outcome, start_output, committed, mod_calls,
                  prior_forbidden, cancel, model_calls, paint_calls, directive, retry >>

\* workflow.py 116-146 and 220-227: chapter_finalize_node, then check_completion
FinalizeNode ==
  /\ pc = "finalize"
  /\ LET next_index == state.current_chapter_index + 1
         st == [state EXCEPT
                  !.generated_chapters = Append(@, NewChapter(state)),
                  !.current_chapter_index = next_index,
                  !.is_complete = IsComplete(next_index, Len(state.plan)),
                  !.current_chapter_content = None,
                  !.current_chapter_image = None,
                  !.current_chapter_audio = None]
     IN /\ state' = st
        /\ pc' = CheckCompletion(st)
  /\ ghist' = [ghist EXCEPT !.finalize_runs = @ + 1, !.resp = NoResp]
  /\ UNCHANGED << job, db >>
  /\ UNCHANGED << wcall, user_input, nb_chapitres, plan_exists, plan, peurs, client, file,
                  output_data, idx, max_retry, tentative, story_text, coherent,
                  previous_chapters, result, meta, judged, gate_error, attempts,
                  all_forbidden, img_outcome, start_output, committed, mod_calls,
                  prior_forbidden, cancel, model_calls, paint_calls, directive, retry >>

\* routes.py 195-248: run_story_generation once ainvoke has returned or raised.
\* A call to the database may raise, which fails the job (242-245) after the
\* rows already committed: the first commit or what precedes it (208-217), the
\* refresh or the second commit (218-234), or the read of db_story.id, which the
\* second commit has expired (239; 237 has set 'completed', 244 overwrites it)
RunStoryGeneration ==
  /\ pc \in { "END", "raised" }
  /\ IF JobFailed(pc = "raised", state)
     THEN /\ job' = [status |-> "failed"]
          /\ UNCHANGED db
     ELSE \E commit \in { "ok", "story_raises", "chapters_raise", "reload_raises" } :
            /\ job' = [status |-> IF commit = "ok" THEN "completed" ELSE "failed"]
            /\ db' = [user |-> db.user,
                      story |-> commit # "story_raises",
                      chapters |-> IF commit \in { "ok", "reload_raises" }
                                   THEN [i \in 1..Len(state.generated_chapters) |->
                                           state.generated_chapters[i].numero]
                                   ELSE << >>]
  /\ ghist' = [ghist EXCEPT !.saved = IF pc = "raised" THEN "raised" ELSE "ended"]
  /\ pc' = "job_done"
  /\ UNCHANGED state
  /\ UNCHANGED << wcall, user_input, nb_chapitres, plan_exists, plan, peurs, client, file,
                  output_data, idx, max_retry, tentative, story_text, coherent,
                  previous_chapters, result, meta, judged, gate_error, attempts,
                  all_forbidden, img_outcome, start_output, committed, mod_calls,
                  prior_forbidden, cancel, model_calls, paint_calls, directive, retry >>

\* admin_routes.py 422-449: delete_story on the Story row of the job; the Chapter
\* rows of the story and the Story row are deleted in one commit (a story that
\* does not exist answers 404 and changes nothing). story_jobs is not touched.
DeleteStory ==
  /\ db.story
  /\ db' = [db EXCEPT !.story = FALSE, !.chapters = << >>]
  /\ ghist' = [ghist EXCEPT !.deleted = TRUE]
  /\ UNCHANGED << pc, state, job >>
  /\ UNCHANGED << wcall, user_input, nb_chapitres, plan_exists, plan, peurs, client, file,
                  output_data, idx, max_retry, tentative, story_text, coherent,
                  previous_chapters, result, meta, judged, gate_error, attempts,
                  all_forbidden, img_outcome, start_output, committed, mod_calls,
                  prior_forbidden, cancel, model_calls, paint_calls, directive, retry >>

\* admin_routes.py 311-351: delete_user on the owner of the job, who exists, is
\* not the caller and is not an admin; the Chapter rows of the user's stories,
\* the stories and the User row are deleted in one commit. story_jobs is not
\* touched and a job under way goes on.
DeleteUser ==
  /\ db.user
  /\ db' = [user |-> FALSE, story |-> FALSE, chapters |-> << >>]
  /\ ghist' = [ghist EXCEPT !.deleted = @ \/ db.story \/ db.chapters # << >>]
  /\ UNCHANGED << pc, state, job >>
  /\ UNCHANGED << wcall, user_input, nb_chapitres, plan_exists, plan, peurs, client, file,
                  output_data, idx, max_retry, tentative, story_text, coherent,
                  previous_chapters, result, meta, judged, gate_error, attempts,
                  all_forbidden, img_outcome, start_output, committed, mod_calls,
                  prior_forbidden, cancel, model_calls, paint_calls, directive, retry >>

GraphNext ==
  \/ InputProcessingNode
  \/ ManagerNode
  \/ WriterNode
  \/ ModeratorNode
  \/ PainterNode
  \/ NarratorNode
  \/ FinalizeNode
  \/ RunStoryGeneration
  \/ DeleteStory
  \/ DeleteUser

\* One story job: the graph run and the end of run_story_generation
GraphSpec == GraphInit /\ [][GraphNext]_vars

---------------------------------------------------------------------------
\* Vocabulary of the properties

InChapter == pc \in { "drafting", "checking", "accepted", "returned" }

Numbers(chapitres) == { chapitres[i].chapter_number : i \in 1..Len(chapitres) }

IsPrefix(a, b) == Len(a) <= Len(b) /\ SubSeq(b, 1, Len(a)) = a

IsOk(e) == e.status = "ok"

\* The story_text of the accepted entries, in their order
AcceptedTexts(chapitres) == PreviousChapters(SelectSeq(chapitres, IsOk))

\* Every chapter number of the plan has exactly one entry, ok or failed
Complete(chapitres) ==
  \A k \in 1..Len(plan) :
    /\ Cardinality({ i \in 1..Len(chapitres) : chapitres[i].chapter_number = plan[k] }) = 1
    /\ \A i \in 1..Len(chapitres) :
         chapitres[i].chapter_number = plan[k] => chapitres[i].status \in { "ok", "failed" }

---------------------------------------------------------------------------
\* C1. A draft that contains a forbidden element is never handed to
\* moderator.verifier_coherence, on any attempt: the number of judgment calls made
\* for such a draft is zero.
C1_NoJudgmentOnForbiddenDraft ==
  (InChapter /\ Violations(peurs, story_text) # << >>) => judged = 0

\* C2. A result returned with status ok has a story_text that contains no
\* forbidden element.
C2_OkTextHasNoForbidden ==
  (pc = "returned" /\ result.status = "ok") => Violations(peurs, result.story_text) = << >>

\* C3. When the judgment errors (no client, or every call of the local retry
\* loop fails), verifier_coherence reports not coherent and the attempt is not
\* accepted.
C3_FailClosed ==
  (InChapter /\ judged > 0 /\ gate_error) =>
    /\ ~coherent
    /\ pc # "accepted"
    /\ (pc = "returned" => result.status = "failed")

\* C4. If every draft the writer returned contains a forbidden term, the call makes
\* exactly max_retry drafting attempts and returns status failed with
\* tentatives = max_retry.
C4_ExhaustionFails ==
  (pc = "returned" /\ all_forbidden) =>
    /\ attempts = max_retry
    /\ result.status = "failed"
    /\ meta.status = "failed"
    /\ meta.tentatives = max_retry

\* C5. Once a draft is accepted, a painter that raises or leaves no file still
\* gives status ok with an empty illustration_path and the accepted text, and the
\* call drafts no more.
C5_IllustrationFailureNonFatal ==
  (img_outcome \in { "raise", "nofile" }) =>
    /\ pc \notin { "drafting", "checking", "accepted" }
    /\ result.status = "ok"
    /\ meta.status = "ok"
    /\ result.illustration_path = EmptyStr
    /\ result.story_text = story_text
    /\ story_text # EmptyStr
    /\ (pc = "writing" => output_data[Len(output_data)].status = "ok")

C5_Witness ==
  /\ pc = "returned"
  /\ img_outcome = "raise"
  /\ result.status = "ok"
  /\ result.illustration_path = EmptyStr

\* C6. A run of main on a persisted output never calls generer_chapitre for a
\* chapter number present in that output (ok or failed), adds no second entry for
\* it, and a run on a complete output leaves it unchanged.
C6_Resumable ==
  /\ InChapter => plan[idx] \notin Numbers(start_output)
  /\ pc \in Running =>
       /\ IsPrefix(start_output, output_data)
       /\ \A j \in (Len(start_output) + 1)..Len(output_data) :
            output_data[j].chapter_number \notin Numbers(start_output)
  /\ (pc = "done" /\ \A k \in 1..Len(plan) : plan[k] \in Numbers(start_output)) =>
       /\ output_data = start_output
       /\ file.chapitres = start_output
       /\ start_output # << >> => file.state = "json"

C6_Witness ==
  /\ pc = "done"
  /\ Len(start_output) = 2
  /\ \E i \in 1..Len(start_output) : start_output[i].status = "failed"
  /\ output_data = start_output

\* C7. A run of main ends, and when it has ended the persisted output holds
\* exactly one entry, ok or failed, for every chapter number of the plan.
C7_RunCompletes ==
  /\ (pc = "idle") ~> (pc \in { "done", "noplan" })
  /\ [](pc = "done" => (file.state = "json" /\ Complete(file.chapitres)))

C7_Witness ==
  /\ pc = "done"
  /\ Len(plan) = 2
  /\ Len(file.chapitres) = 2
  /\ file.chapitres[1].status = "failed"
  /\ file.chapitres[2].status = "ok"

\* C8. When generer_chapitre returns status failed, main records that result and
\* goes on to process every later chapter of the plan.
C8_FailedDoesNotAbort ==
  /\ [](pc = "writing" => output_data[Len(output_data)] = Entry(result, meta))
  /\ (pc = "returned" /\ result.status = "failed")
       ~> (pc = "done" /\ \A k \in 1..Len(plan) : plan[k] \in Numbers(file.chapitres))

C8_Witness ==
  /\ pc = "drafting"
  /\ idx = 2
  /\ Len(output_data) = 1
  /\ output_data[1].status = "failed"
  /\ file.chapitres = output_data

\* C9. Each result is appended and written before the next chapter is drafted, so
\* whatever the point at which a run was killed, the next run finds again every
\* result that had been written.
C9_CrashKeepsEarlierResults ==
  pc \in Running => IsPrefix(committed, output_data)

\* C10. The previous_chapters handed to generer_chapitre are exactly the story_text
\* of the accepted (status ok) earlier chapters, in order.
C10_ContinuityOnlyAccepted ==
  InChapter => previous_chapters = AcceptedTexts(output_data)

\* C11: when every draft before the last contains a forbidden word, and the last
\* draft contains none and the moderator judges it coherent, generer_chapitre
\* returns status ok with the number of the last attempt as its attempt count,
\* and the moderator was called once in the whole call.
C11_CleanDraftAfterForbiddenOnes ==
  (/\ pc = "returned"
   /\ prior_forbidden
   /\ judged = 1
   /\ coherent
   /\ Violations(peurs, story_text) = << >>)
  => (/\ result.status = "ok"
      /\ meta.status = "ok"
      /\ meta.tentatives = attempts
      /\ meta.tentatives = tentative
      /\ tentative <= max_retry
      /\ mod_calls = 1)

\* The second draft is the first one without a forbidden word
C11_Witness ==
  /\ pc = "returned"
  /\ prior_forbidden
  /\ judged = 1
  /\ coherent
  /\ peurs # << >>
  /\ Violations(peurs, story_text) = << >>
  /\ attempts = 2
  /\ mod_calls = 1
  /\ result.status = "ok"

\* C12: for a plan numbered 1..N in order, the output file after a complete run of
\* main, interrupted and resumed or not, lists chapters 1..N in ascending order
\* without a gap.
C12_OrderPreserved ==
  (/\ pc = "done"
   /\ Len(plan) >= 1
   /\ \A i \in 1..Len(plan) : plan[i] = i)
  => (/\ file.state = "json"
      /\ Len(file.chapitres) = Len(plan)
      /\ \A i \in 1..Len(plan) : file.chapitres[i].chapter_number = i)

\* A run resumed after chapter 1 was saved has completed the plan 1, 2
C12_Witness ==
  /\ pc = "done"
  /\ plan = << 1, 2 >>
  /\ Len(start_output) = 1
  /\ Len(file.chapitres) = 2
  /\ file.chapitres[2].chapter_number = 2

\* C13: no chapter number appears twice in the output file nor in the output
\* main holds in memory, whatever the plan and however often main is
\* interrupted and run again.
C13_NoDuplicateChapter ==
  /\ \A i, j \in 1..Len(file.chapitres) :
       file.chapitres[i].chapter_number = file.chapitres[j].chapter_number => i = j
  /\ \A i, j \in 1..Len(output_data) :
       output_data[i].chapter_number = output_data[j].chapter_number => i = j

\* A plan that lists chapter 1 twice has been run to its end
C13_Witness ==
  /\ pc = "done"
  /\ plan = << 1, 1 >>
  /\ file.state = "json"
  /\ Len(file.chapitres) = 1

\* C14: a plan with no chapter, or with a chapter number listed twice, is
\* rejected before any chapter is processed: no draft is asked for, nothing is
\* written, and main does not end as a completed run.
C14_InvalidPlanRejected ==
  (/\ plan_exists
   /\ \/ Len(plan) = 0
      \/ \E i, j \in 1..Len(plan) : i # j /\ plan[i] = plan[j])
  => (/\ pc \notin { "drafting", "checking", "accepted", "returned", "writing", "done" }
      /\ attempts = 0
      /\ file.chapitres = << >>)

\* C15: a result returned with status failed records max_retry attempts, all of
\* them made, and carries the message of the last rejection or writer error.
C15_FailedOnlyWhenExhausted ==
  (pc = "returned" /\ result.status = "failed")
  => (/\ meta.tentatives = max_retry
      /\ attempts = max_retry
      /\ ~AttemptsRemain(tentative, max_retry)
      /\ result.error_message \in { MsgRejected, MsgEmpty, MsgWriter, MsgFallback }
      /\ (judged = 1 => result.error_message = MsgRejected)
      /\ (judged = 0 /\ max_retry >= 1 => result.error_message \in { MsgEmpty, MsgWriter }))

\* The moderator rejected the second and last draft
C15_Witness ==
  /\ pc = "returned"
  /\ result.status = "failed"
  /\ max_retry = 2
  /\ attempts = 2
  /\ judged = 1
  /\ result.error_message = MsgRejected

\* C16, as stated: for every max_retry, the counter starts at 1, grows by one at
\* each new draft, never exceeds max_retry, and the count returned is in
\* 1..max_retry and equals the number of drafts made.
C16_AttemptCountInRange ==
  /\ pc = "drafting" => tentative = attempts + 1 /\ tentative \in 1..max_retry
  /\ pc \in { "checking", "accepted" } => tentative = attempts /\ tentative \in 1..max_retry
  /\ pc = "returned" => meta.tentatives = attempts /\ meta.tentatives \in 1..max_retry

\* C16, amended: the counter starts at 1, grows by one at each new draft and
\* never exceeds max_retry; for every max_retry of at least 1 the count returned
\* is in 1..max_retry and equals the number of drafts made; for every max_retry
\* below 1, negative ones included, no draft is made and the fallback result,
\* failed, records max_retry itself.
C16_AttemptCountInRangeFromOne ==
  /\ pc = "drafting" => tentative = attempts + 1 /\ tentative \in 1..max_retry
  /\ pc \in { "checking", "accepted" } => tentative = attempts /\ tentative \in 1..max_retry
  /\ pc = "returned" /\ max_retry >= 1
     => meta.tentatives = attempts /\ meta.tentatives \in 1..max_retry
  /\ max_retry < 1 => pc \in { "call", "returned" } /\ attempts = 0
  /\ pc = "returned" /\ max_retry < 1
     => /\ meta.tentatives = max_retry
        /\ meta.status = "failed"
        /\ result.status = "failed"
        /\ result.error_message = MsgFallback

\* A call with max_retry 4 has returned after three drafts
C16_Witness ==
  /\ pc = "returned"
  /\ max_retry = 4
  /\ attempts = 3
  /\ meta.tentatives = 3

\* C17: a returned result has an error_message exactly when its status is failed.
C17_ErrorMessageIffFailed ==
  pc = "returned"
  => (/\ result.status \in { "ok", "failed" }
      /\ (result.status = "failed" <=> result.error_message # None))

\* An accepted chapter has been returned
C17_Witness ==
  /\ pc = "returned"
  /\ result.status = "ok"
  /\ result.error_message = None
  /\ judged = 1

\* C18: while a chapter is drafted, checked or illustrated, and until its result
\* is returned, the output file holds what main loaded or last saved and no
\* entry for that chapter, so an interruption leaves nothing partial for it.
C18_NothingWrittenBeforeReturn ==
  InChapter
  => (/\ file.chapitres = output_data
      /\ plan[idx] \notin Numbers(file.chapitres))

\* The second chapter is being checked while the file holds the first
C18_Witness ==
  /\ pc = "checking"
  /\ idx = 2
  /\ file.state = "json"
  /\ Len(file.chapitres) = 1
  /\ file.chapitres[1].chapter_number # plan[idx]

\* C19: once cancellation has been requested, main starts no further chapter.
C19_NoChapterAfterCancel ==
  [][cancel => ~(pc = "loop" /\ pc' = "drafting")]_vars

\* C20: a story of d minutes, d in 1..14, is planned with ceil(d / 2) chapters,
\* and every story with at least one chapter.
C20_ChapterCountIsHalfDuration ==
  pc \in { "guarded", "prompted" }
  => (/\ nb_chapitres >= 1
      /\ (user_input.present /\ user_input.value \in 1..14
          => nb_chapitres = CeilDiv(user_input.value, 2)))

\* C22: a retry that follows a rejected draft, rejected by the local
\* forbidden-word test or by the moderator, starts after the pause.
C22_BackoffBeforeRetry ==
  (pc = "drafting" /\ retry.cause \in { "lexical", "semantic" }) => retry.slept

\* C23: a writer call that raises or returns an empty text uses up its attempt
\* with no moderator and no painter call; generer_chapitre drafts again when
\* attempts remain, and otherwise returns failed with empty text, empty
\* illustration path and the error as message. No ok result has an empty text.
C23_EmptyDraftConsumesAttempt ==
  [][/\ (pc = "drafting" /\ story_text' = EmptyStr)
        => /\ mod_calls' = mod_calls
           /\ paint_calls' = paint_calls
           /\ judged' = 0
           /\ IF AttemptsRemain(tentative, max_retry)
              THEN /\ pc' = "drafting"
                   /\ tentative' = tentative + 1
                   /\ result' = result
              ELSE /\ pc' = "returned"
                   /\ result'.status = "failed"
                   /\ result'.story_text = EmptyStr
                   /\ result'.illustration_path = EmptyStr
                   /\ result'.error_message \in { MsgEmpty, MsgWriter }
     /\ result'.status = "ok" => result'.story_text # EmptyStr]_vars

\* Both attempts of a call with max_retry 2 got an empty text
C23_Witness ==
  /\ pc = "returned"
  /\ max_retry = 2
  /\ attempts = 2
  /\ result.status = "failed"
  /\ result.error_message = MsgEmpty
  /\ mod_calls = 0
  /\ paint_calls = 0

\* C24: the painter is called at most once in a call of generer_chapitre, and
\* only for the draft of the current attempt once the moderator accepted it;
\* a failed result never comes with a painter call.
C24_PainterOnlyAfterAcceptance ==
  /\ paint_calls <= 1
  /\ paint_calls = 1
     => /\ pc = "returned"
        /\ judged = 1
        /\ coherent
        /\ result.status = "ok"
        /\ meta.tentatives = tentative
  /\ (pc = "returned" /\ result.status = "failed")
     => (paint_calls = 0 /\ img_outcome = "none")
  /\ pc \in { "drafting", "checking", "accepted" } => paint_calls = 0

\* The painter was called for the second draft, the first one it was called for
C24_Witness ==
  /\ pc = "returned"
  /\ paint_calls = 1
  /\ attempts = 2
  /\ result.status = "ok"

\* C25: the prompt of an attempt carries the "previous text was rejected"
\* directive exactly when the attempt is not the first, whatever ended the
\* attempt before it.
C25_DirectiveFromSecondAttempt ==
  /\ attempts = 0 => ~directive
  /\ attempts >= 1 => (directive <=> attempts > 1)
  /\ (attempts >= 1 /\ retry.cause # "none" /\ pc # "drafting") => directive

\* The first attempt ended on a writer error, the second prompt has the directive
C25_Witness ==
  /\ pc = "checking"
  /\ attempts = 2
  /\ retry.cause = "error"
  /\ directive

\* C26: the writer called with retries = r asks for at most r + 1 completions,
\* asks again only after a completion that raised, and returns the stripped
\* text of the first completion that did not raise, empty or not, or raises
\* after r + 1 raises; one call of generer_chapitre, which passes retries = 2,
\* asks for at most 3 * max_retry completions.
C26_WriterCallsBounded ==
  /\ pc \in { "writer_returned", "writer_raised" }
     => LET o == wcall.out
        IN /\ o.calls \in 1..(wcall.retries + 1)
           /\ \A i \in 1..(o.calls - 1) : wcall.calls[i].exc
           /\ o.raised <=> wcall.calls[o.calls].exc
           /\ o.raised => o.calls = wcall.retries + 1
           /\ ~o.raised => o.text = Strip(wcall.calls[o.calls].content)
           /\ o.raised <=> pc = "writer_raised"
  /\ model_calls.on
     => /\ attempts <= max_retry
        /\ model_calls.n <= (WriterRetries + 1) * attempts
        /\ model_calls.n <= 3 * max_retry

\* Each of the two attempts of a call took three completions
C26_Witness ==
  /\ pc = "returned"
  /\ model_calls.on
  /\ max_retry = 2
  /\ model_calls.n = 6

\* C27: whenever a run of main is not in the middle of a write, the output file
\* begins with the entries it held when the run started, unchanged and in
\* place, and holds exactly what main has appended so far; the file does not
\* change while generer_chapitre runs.
C27_AppendOnly ==
  /\ pc \in { "loop", "drafting", "checking", "accepted", "returned", "done" }
     => /\ IsPrefix(start_output, file.chapitres)
        /\ file.chapitres = output_data
  /\ pc = "writing"
     => /\ IsPrefix(start_output, output_data)
        /\ Len(output_data) >= 1
        /\ SubSeq(output_data, 1, Len(output_data) - 1) = committed
           \/ SubSeq(output_data, 1, Len(output_data) - 1) = start_output

\* A run that started with one entry in the file has written a second one
C27_Witness ==
  /\ pc = "loop"
  /\ file.state = "json"
  /\ Len(start_output) = 1
  /\ Len(file.chapitres) = 2
  /\ file.chapitres[1] = start_output[1]

\* C21: in the graph, a chapter goes past the moderator only when the judgment
\* call succeeded, its answer parsed, and the answer says approved = true.
C21_FailClosedGraph ==
  pc \in { "painter", "narrator", "finalize" }
  => (ghist.resp.kind = "obj" /\ ghist.resp.approved = "true")

\* C28: the painter, the narrator and finalize run, and a chapter is appended,
\* only in an iteration whose writer returned a content and whose moderator
\* approved it; after a writer error the error stays and nothing more of the
\* chapter runs; no appended chapter has a missing content.
C28_OnlyApprovedChaptersAppended ==
  /\ pc \in { "painter", "narrator", "finalize" }
     => /\ ghist.writer_ok
        /\ ghist.approved
        /\ ~HasError(state)
        /\ state.current_chapter_content \in GraphTexts
  /\ \A i \in 1..Len(state.generated_chapters) :
       state.generated_chapters[i].contenu \in GraphTexts
  /\ Len(state.generated_chapters) = ghist.finalize_runs
  /\ ghist.finalize_runs = ghist.painter_runs - (IF pc \in { "narrator", "finalize" } THEN 1 ELSE 0)
  /\ ghist.finalize_runs = ghist.narrator_runs - (IF pc = "finalize" THEN 1 ELSE 0)
  /\ (ghist.writer_runs > 0 /\ ~ghist.writer_ok)
     => /\ state.error = MsgWriterError
        /\ pc \in { "moderator", "raised", "job_done" }
        /\ ghist.finalize_runs = ghist.writer_runs - 1

\* The writer failed on the second chapter, after the first one was appended
C28_Witness ==
  /\ pc = "job_done"
  /\ ghist.writer_runs = 2
  /\ ~ghist.writer_ok
  /\ Len(state.generated_chapters) = 1
  /\ state.error = MsgWriterError

\* C29: a job is completed, and rows are saved, only after a graph run that
\* ended without error on a complete story, and a completed job has its Story
\* row and one Chapter row per planned chapter as long as no administrator has
\* deleted them; a writer error or a rejection ends the run with no retry, fails
\* the job and saves nothing.
C29_CompletedOnlyWithoutError ==
  /\ job.status = "completed"
     => /\ pc = "job_done"
        /\ ghist.saved = "ended"
        /\ ~HasError(state)
        /\ state.is_complete
        /\ Len(state.generated_chapters) = Len(state.plan)
        /\ ~ghist.deleted => (db.story /\ Len(db.chapters) = Len(state.plan))
  /\ (db.story \/ db.chapters # << >>)
     => /\ ghist.saved = "ended"
        /\ ~HasError(state)
        /\ state.is_complete
        /\ Len(state.generated_chapters) = Len(state.plan)
  /\ (ghist.writer_runs > 0 /\ (~ghist.writer_ok \/ state.error = MsgModeration))
     => /\ pc \in { "moderator", "END", "raised", "job_done" }
        /\ ghist.writer_runs = Len(state.generated_chapters) + 1
        /\ ghist.painter_runs = Len(state.generated_chapters)
        /\ job.status \in { "processing", "failed" }
        /\ pc = "job_done" => job.status = "failed"
        /\ ~db.story
        /\ db.chapters = << >>

\* The second chapter was rejected: the job failed and the first is not saved
C29_Witness ==
  /\ pc = "job_done"
  /\ state.error = MsgModeration
  /\ Len(state.generated_chapters) = 1
  /\ job.status = "failed"
  /\ ~db.story

\* C30: the number of appended chapters equals current_chapter_index, the i-th
\* appended chapter is the i-th of the plan, after a finalize is_complete says
\* whether the index has reached the length of the plan, and a run that ends
\* without error has run each of the five nodes once per planned chapter.
C30_OnePassPerChapter ==
  state.has_plan
  => /\ Len(state.generated_chapters) = state.current_chapter_index
     /\ \A i \in 1..Len(state.generated_chapters) :
          state.generated_chapters[i].numero = state.plan[i]
     /\ ghist.finalize_runs >= 1
        => (state.is_complete <=> state.current_chapter_index >= Len(state.plan))
     /\ ((pc = "END" \/ (pc = "job_done" /\ ghist.saved = "ended")) /\ ~HasError(state))
        => /\ ghist.writer_runs = Len(state.plan)
           /\ ghist.moderator_runs = Len(state.plan)
           /\ ghist.painter_runs = Len(state.plan)
           /\ ghist.narrator_runs = Len(state.plan)
           /\ ghist.finalize_runs = Len(state.plan)

\* A plan of two chapters has been run to the end without error
C30_Witness ==
  /\ pc = "END"
  /\ ~HasError(state)
  /\ state.has_plan
  /\ Len(state.plan) = 2
  /\ ghist.finalize_runs = 2
  /\ state.is_complete

====
